---- MODULE Spec2Model ----
(***************************************************************************)
(* A model of the RM3100 magnetometer driver (rm3100.py, class _RM3100).   *)
(*                                                                         *)
(* The driver is modelled at the level of its register transport: every    *)
(* _write_reg / _read_multiple call and every time.sleep call of a public  *)
(* operation is appended to `trace`, and every write the bus acknowledged  *)
(* is stored in `regs`.  What the device answers (the DRDY pin level, the  *)
(* STATUS byte, the nine bytes of the MX block) and whether a bus          *)
(* transaction succeeds are inputs, drawn from small sets.                 *)
(*                                                                         *)
(* Numbers: bytes are written in decimal with the source's hexadecimal in  *)
(* a comment.  Durations are in microseconds.  A frequency is a positive   *)
(* rational <<n, d>> meaning n/d Hz.  A value in microtesla is the exact   *)
(* rational vec[i] / den of the float the code computes.                   *)
(***************************************************************************)
EXTENDS Integers, Sequences, FiniteSets, TLC

(* ------------------------------ bounds --------------------------------- *)

\* False completion checks of one get_next_reading call that are recorded
\* in the trace; later ones still happen but are not recorded.
MaxPolls == 2
\* The nesting of `with` blocks on one driver that is followed.
MaxDepth == 2

(* ------------------------- program constants --------------------------- *)

_POLL == 0
_CMM == 1
_CCX == 4
_TMRC == 11       \* 0x0B
_MX == 36         \* 0x24
_STATUS == 52     \* 0x34
\* _CYCLE_DURATION = 0.000036 s, in microseconds
_CYCLE_DURATION == 36
\* the default poll_interval of get_next_reading, 0.01 s, in microseconds
DefaultPollInterval == 10000

Registers == {_POLL, _CMM, _CCX, _TMRC, _MX, _STATUS}

(* ------------------------------ inputs --------------------------------- *)

\* cycle_count arguments of the constructor: the default 200, zero
\* (which struct.pack accepts) and a value struct.pack rejects
CycleCounts == {0, 200, 65536}

\* For the constructor alone: values around every byte boundary of the
\* 16-bit range, and values outside it on both sides.
AllCycleCounts ==
    {-65536, -256, -1, 65536, 65537, 70000, 131072}
    \cup (0..3) \cup (254..258) \cup (510..514) \cup {200, 4660, 32767, 32768}
    \cup (65279..65282) \cup (65533..65535)
    \cup {256 * n : n \in 2..40}

\* frequency arguments of start_continuous_reading, as <<n, d>> = n/d Hz.
\* In the driver's state machine: the default, the fastest rate, one above
\* it and one below the slowest rate 600 / 2^13.
Frequencies == {<<300, 1>>, <<600, 1>>, <<1200, 1>>, <<1, 50>>}
\* For the quantization alone: the fourteen rates 600 / 2^k, whole rates
\* from 1 Hz to 1500 Hz (among them both sides of the rounding thresholds
\* 600 * sqrt(2) / 2^k, k = 0..9), some far above 600 Hz, and slow rates
\* n / 50 Hz.
SupportedFrequencies == {<<600, 2^k>> : k \in 0..13}
AllFrequencies ==
    SupportedFrequencies
    \cup {<<n, 1>> : n \in 1..60}
    \cup {<<25 * n, 1>> : n \in 3..60}
    \cup {<<n, 1>> : n \in {106, 107, 212, 213, 424, 425, 848, 849}}
    \cup {<<2400, 1>>, <<5000, 1>>, <<20000, 1>>}
    \cup {<<n, 50>> : n \in 1..10}

\* poll_interval arguments of get_next_reading, in microseconds
PollIntervals == {DefaultPollInterval, 1000}

\* bytes the STATUS register is read as: 0x00, 0x01, 0x7F, 0x80, 0x81, 0xFF
StatusBytes == {0, 1, 127, 128, 129, 255}
\* and inside the polling loop of get_next_reading: 0x7F, 0x80
PollStatusBytes == {127, 128}

\* the three bytes of one axis of the MX block: 0x000000, 0x7FFFFF,
\* 0x800000, 0x800001, 0xFFFFFF
FieldBytes ==
    {<<0, 0, 0>>, <<127, 255, 255>>, <<128, 0, 0>>, <<128, 0, 1>>, <<255, 255, 255>>}
AllMXBlocks == {x \o y \o z : x \in FieldBytes, y \in FieldBytes, z \in FieldBytes}
\* in the driver's state machine: (1, -1, 0x7FFFFF) and (0x800000, 0, -2)
MXBlocks == {<<0, 0, 1, 255, 255, 255, 127, 255, 255>>,
             <<128, 0, 0, 0, 0, 0, 255, 255, 254>>}

(* --------------------------- pure functions ---------------------------- *)

\* (mutant) the two bytes in little-endian order
PackHLittle(v) == <<v % 256, v \div 256>>

\* struct.pack(">H", v): two bytes, big-endian
PackH(v) == <<v \div 256, v % 256>>

\* struct.pack(">HHH", a, b, c); the caller checks the range of H first
PackHHH(a, b, c) == PackH(a) \o PackH(b) \o PackH(c)

\* (mutant) a range check that also rejects zero
FitsHPositive(v) == v >= 1 /\ v <= 65535

\* whether struct.pack accepts v for the format H
FitsH(v) == v >= 0 /\ v <= 65535

\* int.from_bytes(b, "big") for a sequence of bytes
RECURSIVE FromBytesBig(_)
FromBytesBig(b) ==
    IF b = << >> THEN 0
    ELSE 256 * FromBytesBig(SubSeq(b, 1, Len(b) - 1)) + b[Len(b)]

\* x - 0x01000000 if x > 0x00800000 else x
SignExtend(x) == IF x > 8388608 THEN x - 16777216 ELSE x

\* the tuple get_last_reading builds from the nine bytes of the MX block
DecodeMX(b) ==
    [i \in 1..3 |-> SignExtend(FromBytesBig(SubSeq(b, 3 * i - 2, 3 * i)))]

RECURSIVE Gcd(_, _)
Gcd(a, b) == IF b = 0 THEN a ELSE Gcd(b, a % b)

\* floor(log2(a / b)) for positive integers a, b: the k with
\* 2^k <= a / b < 2^(k + 1)
RECURSIVE FloorLog2(_, _)
FloorLog2(a, b) ==
    IF a >= 2 * b THEN 1 + FloorLog2(a, 2 * b)
    ELSE IF a < b THEN FloorLog2(2 * a, b) - 1
    ELSE 0

\* Division by _LN2 = 0.693147, which is a little less than log(2): the
\* quotient log(r) / _LN2 reaches k + 1/2, and round() goes up to k + 1,
\* when r >= exp(_LN2 * (k + 1/2)), a little below sqrt(2) * 2^k.
\* HalfwayBelow[k] is the largest fraction <<p, q>> with q <= 32767 below
\* exp(_LN2 * (k + 1/2)) / 2^k, for k = -15..14: a fraction x / y with
\* y <= 32767 is at or above the threshold iff it is above p / q.
HalfwayBelow ==
    LET t == <<
      <<19775, 13983>>, <<2646, 1871>>, <<45699, 32314>>, <<25685, 18162>>, <<31117, 22003>>,
      <<34480, 24381>>, <<577, 408>>, <<16395, 11593>>, <<14903, 10538>>, <<43118, 30489>>,
      <<38980, 27563>>, <<42244, 29871>>, <<18645, 13184>>, <<1970, 1393>>, <<38147, 26974>>,
      <<6149, 4348>>, <<45392, 32097>>, <<31363, 22177>>, <<37891, 26793>>, <<20120, 14227>>,
      <<6866, 4855>>, <<26549, 18773>>, <<12001, 8486>>, <<45935, 32481>>, <<40363, 28541>>,
      <<4319, 3054>>, <<15067, 10654>>, <<4558, 3223>>, <<45959, 32498>>, <<35689, 25236>> >>
    IN  [k \in -15..14 |-> t[k + 16]]

\* round(math.log(a / b) / _LN2) for the reduced fraction a / b with a and b
\* in 1..32767: with k = floor(log2(a / b)) the result is k or k + 1, k + 1
\* iff a / (b * 2^k) is at or above the threshold of k.
RoundLog2(a, b) ==
    LET k == FloorLog2(a, b)
        x == IF k >= 0 THEN a ELSE a * 2^(-k)
        y == IF k >= 0 THEN b * 2^k ELSE b
        t == HalfwayBelow[k]
    IN  IF x * t[2] > t[1] * y THEN k + 1 ELSE k

\* round(math.log(600 / frequency) / _LN2) for frequency = f[1] / f[2]
Exponent(f) ==
    LET a == 600 * f[2]
        b == f[1]
        g == Gcd(a, b)
    IN  RoundLog2(a \div g, b \div g)

\* (mutant) the exponent is used as computed
ClampNever(e) == e

\* min(13, exponent)
Clamp(e) == IF e > 13 THEN 13 ELSE e

\* value = 0x92 + int(exponent), the byte written to TMRC
TimerValue(f) == 146 + Clamp(Exponent(f))

\* measurement_time: _CYCLE_DURATION * cycle_count, in microseconds
MeasurementTime(cc) == _CYCLE_DURATION * cc

\* (mutant) the status byte's truthiness instead of its bit 0x80
StatusTruthy(status) == status # 0

\* status & 0x80 != 0
StatusReady(status) == (status \div 128) % 2 = 1

\* convert_to_microteslas: x * (2.5 / cycle_count) for each x, kept as the
\* exact rational (25 * x) / (10 * cycle_count): vec holds the numerators.
ConvertVec(value) == [i \in 1..3 |-> 25 * value[i]]
ConvertDen(cc) == 10 * cc

(* ------------------------------ state ---------------------------------- *)

VARIABLES
    state,          \* where the caller is: "new" (no driver yet), "ready"
                    \* (between operations), or inside a call between two
                    \* of its steps: "enabling", "settling", "polling",
                    \* "sleeping", "reading"
    cycle_count,    \* self.cycle_count
    has_drdy,       \* self.drdy_pin is not None
    continuous,     \* self.continuous
    regs,           \* per register, the last payload the bus acknowledged
    scope_depth,    \* the number of open `with` blocks on the driver
    op,             \* the public operation in progress, or the last one
    trace,          \* the bus transactions, pin reads and sleeps of `op`
    ret,            \* what `op` returned
    exc,            \* the exception `op` raised to its caller
    exit_exc,       \* the exception __exit__ was called with
    poll_interval,  \* the poll_interval argument of get_next_reading
    polls           \* false completion checks of `op`, up to MaxPolls + 1

vars == <<state, cycle_count, has_drdy, continuous, regs, scope_depth, op,
          trace, ret, exc, exit_exc, poll_interval, polls>>

\* Events of the trace.
WriteEv(addr, data, ok) == <<"write", addr, data, ok>>
ReadEv(addr, size, data, ok) == <<"read", addr, size, IF ok THEN data ELSE << >>, ok>>
SleepEv(dur) == <<"sleep", dur>>
PinEv(level) == <<"pin", level, 0>>

IsWrite(e) == e[1] = "write"
IsRead(e) == e[1] = "read"
IsSleep(e) == e[1] = "sleep"
IsPin(e) == e[1] = "pin"
IsBus(e) == IsWrite(e) \/ IsRead(e)
\* the success flag of a bus transaction
EvOk(e) == e[Len(e)]

\* Exceptions: <<type, the operation that raised it>>.
NoExc == <<"none", "none">>
OSError(origin) == <<"OSError", origin>>
BodyError == <<"BodyError", "body">>

\* Return values.
NoRet == [kind |-> "none", flag |-> FALSE, vec |-> <<0, 0, 0>>, den |-> 1]
BoolRet(b) == [kind |-> "bool", flag |-> b, vec |-> <<0, 0, 0>>, den |-> 1]
RawRet(v) == [kind |-> "raw", flag |-> FALSE, vec |-> v, den |-> 1]
\* the driver object itself
SelfRet == [kind |-> "self", flag |-> FALSE, vec |-> <<0, 0, 0>>, den |-> 1]
UtRet(v, cc) == [kind |-> "ut", flag |-> FALSE, vec |-> ConvertVec(v), den |-> ConvertDen(cc)]

NoPayload == << >>

(* ------------------------- register transport -------------------------- *)

\* The writes of a straight-line operation are a sequence of <<addr, data>>;
\* oks[i] says whether the bus acknowledges the i-th.  _write_reg raises on
\* a failure, so the writes after the first failed one are never issued.
\* (mutant) a refused write does not end the operation
FirstFailIgnored(ws, oks) == 0

\* FirstFail is the index of the first refused write, 0 when every write is
\* acknowledged.
FirstFail(ws, oks) ==
    IF \A i \in 1..Len(ws) : oks[i] THEN 0
    ELSE CHOOSE i \in 1..Len(ws) : ~oks[i] /\ \A j \in 1..(i - 1) : oks[j]

Issued(ws, oks) ==
    LET n == IF FirstFail(ws, oks) = 0 THEN Len(ws) ELSE FirstFail(ws, oks)
    IN  [i \in 1..n |-> WriteEv(ws[i][1], ws[i][2], oks[i])]

\* no write of ws raised
AllOk(ws, oks) == FirstFail(ws, oks) = 0

\* the register file after the events evs: an acknowledged write stores its
\* payload
RECURSIVE RegsAfter(_, _)
RegsAfter(r, evs) ==
    IF evs = << >> THEN r
    ELSE LET e == Head(evs)
             r1 == IF IsWrite(e) /\ EvOk(e) THEN [r EXCEPT ![e[2]] = e[3]] ELSE r
         IN  RegsAfter(r1, Tail(evs))

(* ------------------- the writes of each operation ---------------------- *)

\* __init__: self._write_reg(_CCX, struct.pack(">HHH", cc, cc, cc))
InitWrites(cc) == << <<_CCX, PackHHH(cc, cc, cc)>> >>

\* (mutant) the trigger byte goes to CMM instead of POLL
SingleWritesToCMM == << <<_CMM, <<112>>>> >>

\* start_single_reading: self._write_reg(_POLL, bytearray([0x70]))
SingleWrites == << <<_POLL, <<112>>>> >>

\* (mutant) continuous mode is enabled before the rate is set
ContinuousWritesSwapped(f) == << <<_CMM, <<121>>>>, <<_TMRC, <<TimerValue(f)>>>> >>

\* (mutant) continuous mode is enabled with the byte 0x71
ContinuousWrites71(f) == << <<_TMRC, <<TimerValue(f)>>>>, <<_CMM, <<113>>>> >>

\* start_continuous_reading: TMRC, then CMM = 0x79
ContinuousWrites(f) == << <<_TMRC, <<TimerValue(f)>>>>, <<_CMM, <<121>>>> >>

\* (mutant) stop writes the enable byte 0x79
StopWritesEnable == << <<_CMM, <<121>>>> >>

\* stop: self._write_reg(_CMM, bytearray([0x70]))
StopWrites == << <<_CMM, <<112>>>> >>

\* (mutant) __exit__ stops whatever the mode
ExitWritesAlways(c) == StopWrites

\* __exit__: if self.continuous: self.stop()
ExitWrites(c) == IF c THEN StopWrites ELSE << >>

\* (mutant) magnetic triggers a single reading whatever the mode
MagneticWritesAlways(c) == SingleWrites

\* magnetic: if not self.continuous: self.start_single_reading()
MagneticWrites(c) == IF c THEN << >> ELSE SingleWrites

\* (mutant) STATUS is read even when a ready pin is configured
CompleteEvStatus(pin, level, ok, status) == ReadEv(_STATUS, 1, <<status>>, ok)

\* measurement_complete: the pin's level when a pin is configured, else
\* one read of STATUS.  level, ok and status are what the pin and the bus
\* answer.
CompleteEv(pin, level, ok, status) ==
    IF pin THEN PinEv(level) ELSE ReadEv(_STATUS, 1, <<status>>, ok)
CompleteRaises(pin, ok) == ~pin /\ ~ok
\* (mutant) the completion check is true whatever the device says
CompleteValueAlways(pin, level, status) == TRUE

\* (mutant) the loop condition without its `not`
CompleteValueNegated(pin, level, status) == IF pin THEN ~level ELSE ~StatusReady(status)
CompleteValue(pin, level, status) == IF pin THEN level ELSE StatusReady(status)

\* get_last_reading: self._read_multiple(_MX, 9)
LastReadingEv(block, ok) == ReadEv(_MX, 9, block, ok)

(* ------------------------------ actions -------------------------------- *)

Init ==
    /\ state = "new"
    /\ cycle_count = 200
    /\ has_drdy = FALSE
    /\ continuous = FALSE
    /\ regs = [a \in Registers |-> NoPayload]
    /\ scope_depth = 0
    /\ op = "none"
    /\ trace = << >>
    /\ ret = NoRet
    /\ exc = NoExc
    /\ exit_exc = NoExc
    /\ poll_interval = DefaultPollInterval
    /\ polls = 0

\* The bookkeeping of a call that runs to its end in one step: its events,
\* the registers they leave, and what the caller gets.
Finish(name, evs, r, e) ==
    /\ op' = name
    /\ trace' = evs
    /\ regs' = RegsAfter(regs, evs)
    /\ ret' = r
    /\ exc' = e
    /\ polls' = 0
    /\ poll_interval' = DefaultPollInterval

\* _RM3100.__init__(cycle_count, drdy_pin)
Construct(cc, pin, ok) ==
    /\ state = "new"
    /\ IF ~FitsH(cc)
       THEN \* struct.pack raises struct.error before anything is written
            /\ Finish("__init__", << >>, NoRet, <<"struct.error", "__init__">>)
            /\ UNCHANGED <<state, cycle_count, has_drdy, continuous>>
       ELSE /\ Finish("__init__", Issued(InitWrites(cc), <<ok>>), NoRet,
                      IF ok THEN NoExc ELSE OSError("__init__"))
            /\ cycle_count' = IF ok THEN cc ELSE cycle_count
            /\ has_drdy' = IF ok THEN pin ELSE has_drdy
            /\ continuous' = FALSE
            /\ state' = IF ok THEN "ready" ELSE "new"
    /\ UNCHANGED <<scope_depth, exit_exc>>

\* the measurement_complete property, read by the caller
MeasurementComplete(level, ok, status) ==
    /\ state = "ready"
    /\ Finish("measurement_complete",
              <<CompleteEv(has_drdy, level, ok, status)>>,
              IF CompleteRaises(has_drdy, ok) THEN NoRet
              ELSE BoolRet(CompleteValue(has_drdy, level, status)),
              IF CompleteRaises(has_drdy, ok) THEN OSError("measurement_complete")
              ELSE NoExc)
    /\ exit_exc' = NoExc
    /\ UNCHANGED <<state, cycle_count, has_drdy, continuous, scope_depth>>

\* get_last_reading()
GetLastReading(block, ok) ==
    /\ state = "ready"
    /\ Finish("get_last_reading", <<LastReadingEv(block, ok)>>,
              IF ok THEN RawRet(DecodeMX(block)) ELSE NoRet,
              IF ok THEN NoExc ELSE OSError("get_last_reading"))
    /\ exit_exc' = NoExc
    /\ UNCHANGED <<state, cycle_count, has_drdy, continuous, scope_depth>>

\* convert_to_microteslas(value): no bus access; the division raises when
\* cycle_count is 0
ConvertToMicroteslas(value) ==
    /\ state = "ready"
    /\ Finish("convert_to_microteslas", << >>,
              IF cycle_count = 0 THEN NoRet ELSE UtRet(value, cycle_count),
              IF cycle_count = 0 THEN <<"ZeroDivisionError", "convert_to_microteslas">>
              ELSE NoExc)
    /\ exit_exc' = NoExc
    /\ UNCHANGED <<state, cycle_count, has_drdy, continuous, scope_depth>>

\* start_single_reading()
StartSingleReading(ok) ==
    /\ state = "ready"
    /\ Finish("start_single_reading", Issued(SingleWrites, <<ok>>), NoRet,
              IF ok THEN NoExc ELSE OSError("start_single_reading"))
    /\ exit_exc' = NoExc
    /\ UNCHANGED <<state, cycle_count, has_drdy, continuous, scope_depth>>

\* start_continuous_reading(frequency), up to the return of its first
\* _write_reg: the rate byte is written in a bus transaction of its own, and
\* the bus is free again before the second write.
StartContinuousReading(f, ok) ==
    /\ state = "ready"
    /\ LET ws == ContinuousWrites(f)
       IN  /\ trace' = Issued(<<ws[1]>>, <<ok>>)
           /\ regs' = RegsAfter(regs, Issued(<<ws[1]>>, <<ok>>))
    /\ exc' = IF ok THEN NoExc ELSE OSError("start_continuous_reading")
    /\ state' = IF ok THEN "enabling" ELSE "ready"
    /\ op' = "start_continuous_reading"
    /\ ret' = NoRet
    /\ exit_exc' = NoExc
    /\ polls' = 0
    /\ poll_interval' = DefaultPollInterval
    /\ UNCHANGED <<cycle_count, has_drdy, continuous, scope_depth>>

\* start_continuous_reading(frequency), from there to its return: the
\* second _write_reg, and self.continuous = True when it returned.  f is the
\* frequency of the call in progress, whose first write is in the trace.
EnableContinuous(f, ok) ==
    /\ state = "enabling"
    /\ LET ws == ContinuousWrites(f)
       IN  /\ trace = Issued(<<ws[1]>>, <<TRUE>>)
           /\ trace' = trace \o Issued(<<ws[2]>>, <<ok>>)
           /\ regs' = RegsAfter(regs, Issued(<<ws[2]>>, <<ok>>))
    /\ exc' = IF ok THEN NoExc ELSE OSError("start_continuous_reading")
    /\ continuous' = IF ok THEN TRUE ELSE continuous
    /\ state' = "ready"
    /\ UNCHANGED <<cycle_count, has_drdy, scope_depth, op, ret, exit_exc,
                   poll_interval, polls>>

\* stop()
Stop(ok) ==
    /\ state = "ready"
    /\ Finish("stop", Issued(StopWrites, <<ok>>), NoRet,
              IF ok THEN NoExc ELSE OSError("stop"))
    /\ continuous' = IF ok THEN FALSE ELSE continuous
    /\ exit_exc' = NoExc
    /\ UNCHANGED <<state, cycle_count, has_drdy, scope_depth>>

\* get_next_reading(poll_interval): the call starts; its loop runs in the
\* steps Poll and Sleep.  The code does not look at self.continuous.
GetNextReading(pi) ==
    /\ state = "ready"
    /\ op' = "get_next_reading"
    /\ trace' = << >>
    /\ ret' = NoRet
    /\ exc' = NoExc
    /\ exit_exc' = NoExc
    /\ polls' = 0
    /\ poll_interval' = pi
    /\ state' = "polling"
    /\ UNCHANGED <<cycle_count, has_drdy, continuous, regs, scope_depth>>

\* the magnetic property: a single reading is started unless the driver is
\* in continuous mode, and after measurement_time the call goes on as
\* get_next_reading() with the default poll_interval
Magnetic(ok) ==
    /\ state = "ready"
    /\ LET ws == MagneticWrites(continuous)
       IN  /\ trace' = Issued(ws, <<ok>>)
           /\ regs' = RegsAfter(regs, Issued(ws, <<ok>>))
           /\ exc' = IF AllOk(ws, <<ok>>) THEN NoExc ELSE OSError("magnetic")
           /\ state' = IF ~AllOk(ws, <<ok>>) THEN "ready"
                       ELSE IF ws = << >> THEN "polling" ELSE "settling"
    /\ op' = "magnetic"
    /\ ret' = NoRet
    /\ exit_exc' = NoExc
    /\ polls' = 0
    /\ poll_interval' = DefaultPollInterval
    /\ UNCHANGED <<cycle_count, has_drdy, continuous, scope_depth>>

\* magnetic: time.sleep(self.measurement_time)
Settle ==
    /\ state = "settling"
    /\ trace' = Append(trace, SleepEv(MeasurementTime(cycle_count)))
    /\ state' = "polling"
    /\ UNCHANGED <<cycle_count, has_drdy, continuous, regs, scope_depth, op, ret,
                   exc, exit_exc, poll_interval, polls>>

\* the trace with ev appended, while the call's false checks are within
\* the recorded ones
Record(ev, n) == IF n <= MaxPolls THEN Append(trace, ev) ELSE trace

\* what the call returns for the raw reading v: get_next_reading returns
\* it, magnetic converts it (dividing by cycle_count)
Returned(name, v, cc) == IF name = "magnetic" THEN UtRet(v, cc) ELSE RawRet(v)

\* One evaluation of `while not self.measurement_complete`: one read of the
\* pin or one bus transaction on STATUS.  When it is true the loop ends; the
\* read of MX is a bus transaction of its own, in the step ReadNext.
Poll(level, ok, status) ==
    /\ state = "polling"
    /\ LET ev == CompleteEv(has_drdy, level, ok, status)
           done == CompleteValue(has_drdy, level, status)
       IN  IF CompleteRaises(has_drdy, ok)
           THEN /\ trace' = Append(trace, ev)
                /\ exc' = OSError(op)
                /\ state' = "ready"
                /\ UNCHANGED polls
           ELSE IF ~done
           THEN /\ polls' = IF polls <= MaxPolls THEN polls + 1 ELSE polls
                /\ trace' = Record(ev, polls + 1)
                /\ state' = "sleeping"
                /\ UNCHANGED exc
           ELSE /\ trace' = Append(trace, ev)
                /\ state' = "reading"
                /\ UNCHANGED <<exc, polls>>
    /\ UNCHANGED <<cycle_count, has_drdy, continuous, regs, scope_depth, op,
                   ret, exit_exc, poll_interval>>

\* `return self.get_last_reading()` after the loop: the read of MX, and for
\* magnetic the conversion of the reading.
ReadNext(block, ok) ==
    /\ state = "reading"
    /\ trace' = Append(trace, LastReadingEv(block, ok))
    /\ exc' = IF ~ok THEN OSError(op)
              ELSE IF op = "magnetic" /\ cycle_count = 0
              THEN <<"ZeroDivisionError", op>>
              ELSE NoExc
    /\ ret' = IF ok /\ ~(op = "magnetic" /\ cycle_count = 0)
              THEN Returned(op, DecodeMX(block), cycle_count)
              ELSE NoRet
    /\ state' = "ready"
    /\ UNCHANGED <<cycle_count, has_drdy, continuous, regs, scope_depth, op,
                   exit_exc, poll_interval, polls>>

\* time.sleep(poll_interval) in the loop of get_next_reading
Sleep ==
    /\ state = "sleeping"
    /\ trace' = Record(SleepEv(poll_interval), polls)
    /\ state' = "polling"
    /\ UNCHANGED <<cycle_count, has_drdy, continuous, regs, scope_depth, op, ret,
                   exc, exit_exc, poll_interval, polls>>

\* __enter__(): returns the driver itself.  Blocks on one driver can be
\* nested; the model follows them to the depth MaxDepth.
Enter ==
    /\ state = "ready"
    /\ scope_depth < MaxDepth
    /\ Finish("__enter__", << >>, SelfRet, NoExc)
    /\ scope_depth' = scope_depth + 1
    /\ exit_exc' = NoExc
    /\ UNCHANGED <<state, cycle_count, has_drdy, continuous>>

\* (mutant) __exit__ returns True: the block's exception is swallowed
ExitSwallows(e, ws, ok) == IF AllOk(ws, <<ok>>) THEN NoExc ELSE OSError("stop")

\* (mutant) __exit__ catches what stop raises: best-effort cleanup
ExitBestEffort(e, ws, ok) == e

\* What leaves the `with` statement when __exit__ was called with e and
\* issued the writes ws: __exit__ returns None, so e goes on to the caller,
\* unless stop itself raises.
ExitRaises(e, ws, ok) == IF AllOk(ws, <<ok>>) THEN e ELSE OSError("stop")

\* __exit__(exc_type, exc_val, exc_tb): e is the exception that ends the
\* block (NoExc when the block ends normally).
Exit(e, ok) ==
    /\ state = "ready"
    /\ scope_depth > 0
    /\ LET ws == ExitWrites(continuous)
       IN  /\ Finish("__exit__", Issued(ws, <<ok>>), NoRet, ExitRaises(e, ws, ok))
           /\ continuous' = IF ws # << >> /\ ok THEN FALSE ELSE continuous
    /\ exit_exc' = e
    /\ scope_depth' = scope_depth - 1
    /\ UNCHANGED <<state, cycle_count, has_drdy>>

\* the exceptions a `with` block can end with: none, one raised by the
\* block's own code, or the one the last operation raised
ExitReasons == {NoExc, BodyError, exc}

Next ==
    \/ \E cc \in CycleCounts, pin \in BOOLEAN, ok \in BOOLEAN : Construct(cc, pin, ok)
    \/ \E level \in BOOLEAN, ok \in BOOLEAN, status \in StatusBytes :
          MeasurementComplete(level, ok, status)
    \/ \E block \in MXBlocks, ok \in BOOLEAN : GetLastReading(block, ok)
    \/ \E block \in MXBlocks : ConvertToMicroteslas(DecodeMX(block))
    \/ \E ok \in BOOLEAN : StartSingleReading(ok)
    \/ \E f \in Frequencies, ok \in BOOLEAN : StartContinuousReading(f, ok)
    \/ \E f \in Frequencies, ok \in BOOLEAN : EnableContinuous(f, ok)
    \/ \E ok \in BOOLEAN : Stop(ok)
    \/ \E pi \in PollIntervals : GetNextReading(pi)
    \/ \E ok \in BOOLEAN : Magnetic(ok)
    \/ Settle
    \/ \E level \in BOOLEAN, ok \in BOOLEAN, status \in PollStatusBytes :
          Poll(level, ok, status)
    \/ \E block \in MXBlocks, ok \in BOOLEAN : ReadNext(block, ok)
    \/ Sleep
    \/ Enter
    \/ \E e \in ExitReasons, ok \in BOOLEAN : Exit(e, ok)

Spec == Init /\ [][Next]_vars

(* ----------------------- further specifications ------------------------ *)

\* The state after RM3100(cycle_count = cc, drdy_pin = pin) returned.
Constructed(cc, pin) ==
    /\ state = "ready"
    /\ cycle_count = cc
    /\ has_drdy = pin
    /\ continuous = FALSE
    /\ regs = RegsAfter([a \in Registers |-> NoPayload],
                        Issued(InitWrites(cc), <<TRUE>>))
    /\ scope_depth = 0
    /\ op = "__init__"
    /\ trace = Issued(InitWrites(cc), <<TRUE>>)
    /\ ret = NoRet
    /\ exc = NoExc
    /\ exit_exc = NoExc
    /\ poll_interval = DefaultPollInterval
    /\ polls = 0

\* Frequency quantization: a constructed driver on which continuous mode is
\* started at every frequency of AllFrequencies, and stopped.
NextFreq ==
    \/ \E f \in AllFrequencies, ok \in BOOLEAN : StartContinuousReading(f, ok)
    \/ \E f \in AllFrequencies, ok \in BOOLEAN : EnableContinuous(f, ok)
    \/ \E ok \in BOOLEAN : Stop(ok)

SpecFreq == Constructed(200, FALSE) /\ [][NextFreq]_vars

\* Decoding: a constructed driver whose MX block is read as every block of
\* AllMXBlocks.
NextRead ==
    \E block \in AllMXBlocks, ok \in BOOLEAN : GetLastReading(block, ok)

SpecRead == Constructed(200, FALSE) /\ [][NextRead]_vars

\* The power-of-two steps: a constructed driver on which continuous mode is
\* started at each of the fourteen rates 600 / 2^k and at rates below the
\* slowest of them.
StepFrequencies == SupportedFrequencies \cup {<<n, 50>> : n \in 1..3}

NextStep ==
    \/ \E f \in StepFrequencies, ok \in BOOLEAN : StartContinuousReading(f, ok)
    \/ \E f \in StepFrequencies, ok \in BOOLEAN : EnableContinuous(f, ok)

SpecStep == Constructed(200, FALSE) /\ [][NextStep]_vars

\* Construction: a driver is constructed with every cycle count of
\* AllCycleCounts.
NextInit ==
    \E cc \in AllCycleCounts, pin \in BOOLEAN, ok \in BOOLEAN : Construct(cc, pin, ok)

SpecInit == Init /\ [][NextInit]_vars

(* ------------------- the I2C and SPI register transports ---------------- *)

\* What the transports put on the bus.  self.device is the bus device of the
\* driver; `with self.device` acquires it (bus lock, and chip select for
\* SPI) and releases it when the block is left.
AcquireEv == <<"acquire">>
ReleaseEv == <<"release">>
\* one call of a transfer method of the device: the bytes sent, the bytes
\* received, and whether the transfer succeeded (it raises when not)
TransferEv(method, out, inn, ok) ==
    <<"transfer", method, out, IF ok THEN inn ELSE << >>, ok>>
IsTransfer(e) == e[1] = "transfer"

\* (mutant) the device is locked and unlocked around the transfer without a
\* `with`: a transfer that raises skips the release
ScopedLeaky(ev) ==
    IF EvOk(ev) THEN <<AcquireEv, ev, ReleaseEv>> ELSE <<AcquireEv, ev>>

\* with self.device: <one transfer>
Scoped(ev) == <<AcquireEv, ev, ReleaseEv>>

\* bytes([addr]) + data
WriteFrame(addr, data) == <<addr>> \o data

\* addr | 0x80
ReadFlag(addr) == IF (addr \div 128) % 2 = 1 THEN addr ELSE addr + 128

\* RM3100_SPI._read_multiple: output = bytearray(size + 1);
\* output[0] = addr | 0x80
SPIReadFrame(addr, size) ==
    [i \in 1..(size + 1) |-> IF i = 1 THEN ReadFlag(addr) ELSE 0]

\* (mutant) the whole receive buffer is returned
SPIReadResultWhole(rx) == rx

\* RM3100_SPI._read_multiple: return result[1:]
SPIReadResult(rx) == Tail(rx)

\* a bytes value returned by a transport method
BytesRet(b) == [kind |-> "bytes", flag |-> FALSE, vec |-> b, den |-> 1]

\* The register writes the driver issues, as <<addr, data>>.
DriverWrites ==
    {InitWrites(200)[1], SingleWrites[1], StopWrites[1]}
    \cup {ContinuousWrites(<<300, 1>>)[i] : i \in 1..2}
\* The addresses read: STATUS and MX, and MX with the read bit already set.
ReadAddresses == {_STATUS, _MX, 164}
ReadSizes == {1, 9}
\* what the device answers to a read of size bytes
Answers(size) == IF size = 1 THEN {<<b>> : b \in StatusBytes} ELSE MXBlocks
\* the byte the device clocks out while the address is clocked in
BlankBytes == {0, 255}

\* One call of a transport method, from its first statement to its return
\* or raise: the events on the bus, the device register an acknowledged
\* write sets, and what the caller gets.
Transport(name, evs, reg, r, ok) ==
    /\ state = "ready"
    /\ op' = name
    /\ trace' = evs
    /\ regs' = RegsAfter(regs, reg)
    /\ ret' = IF ok THEN r ELSE NoRet
    /\ exc' = IF ok THEN NoExc ELSE OSError(name)
    /\ UNCHANGED <<state, cycle_count, has_drdy, continuous, scope_depth,
                   exit_exc, poll_interval, polls>>

\* RM3100_I2C._write_reg(addr, data)
I2CWriteReg(addr, data, ok) ==
    Transport("RM3100_I2C._write_reg",
              Scoped(TransferEv("write", WriteFrame(addr, data), << >>, ok)),
              <<WriteEv(addr, data, ok)>>, NoRet, ok)

\* RM3100_I2C._read_multiple(addr, size): rx is what the device sends
I2CReadMultiple(addr, size, rx, ok) ==
    Transport("RM3100_I2C._read_multiple",
              Scoped(TransferEv("write_then_readinto", <<addr>>, rx, ok)),
              << >>, BytesRet(rx), ok)

\* RM3100_SPI._write_reg(addr, data)
SPIWriteReg(addr, data, ok) ==
    Transport("RM3100_SPI._write_reg",
              Scoped(TransferEv("write", WriteFrame(addr, data), << >>, ok)),
              <<WriteEv(addr, data, ok)>>, NoRet, ok)

\* RM3100_SPI._read_multiple(addr, size): rx is what the device sends
\* during the size + 1 bytes of the exchange
SPIReadMultiple(addr, size, rx, ok) ==
    Transport("RM3100_SPI._read_multiple",
              Scoped(TransferEv("write_readinto", SPIReadFrame(addr, size), rx, ok)),
              << >>, BytesRet(SPIReadResult(rx)), ok)

\* The transports: a constructed driver whose transport methods are called
\* with the register accesses the driver makes.
NextBus ==
    \/ \E w \in DriverWrites, ok \in BOOLEAN : I2CWriteReg(w[1], w[2], ok)
    \/ \E w \in DriverWrites, ok \in BOOLEAN : SPIWriteReg(w[1], w[2], ok)
    \/ \E a \in ReadAddresses, n \in ReadSizes, ok \in BOOLEAN :
          \E rx \in Answers(n) : I2CReadMultiple(a, n, rx, ok)
    \/ \E a \in ReadAddresses, n \in ReadSizes, ok \in BOOLEAN :
          \E b \in BlankBytes, rx \in Answers(n) :
              SPIReadMultiple(a, n, <<b>> \o rx, ok)

SpecBus == Constructed(200, FALSE) /\ [][NextBus]_vars

(* ------------------------ the device and the loop ---------------------- *)

\* get_next_reading with the device it waits for.  The device is the
\* register file: POLL and CMM hold what the driver wrote, STATUS and MX are
\* set by the device.  A measurement is pending when a single reading was
\* triggered and not yet made, or while continuous mode is enabled; the
\* device makes a pending measurement at some time, which puts the sample in
\* MX and raises DRDY (the pin, and bit 0x80 of STATUS); reading MX lowers
\* it.  Nothing else raises DRDY.
MeasurementPending == regs[_POLL] = <<112>> \/ regs[_CMM] = <<121>>
DeviceReady == regs[_STATUS] # NoPayload /\ StatusReady(regs[_STATUS][1])
DeviceStatus == IF regs[_STATUS] = NoPayload THEN 0 ELSE regs[_STATUS][1]
DeviceBlock == IF regs[_MX] = NoPayload THEN [i \in 1..9 |-> 0] ELSE regs[_MX]

\* the device completes the pending measurement
DeviceMeasure(block) ==
    /\ MeasurementPending
    /\ regs' = [regs EXCEPT ![_MX] = block, ![_STATUS] = <<128>>, ![_POLL] = NoPayload]
    /\ UNCHANGED <<state, cycle_count, has_drdy, continuous, scope_depth, op,
                   trace, ret, exc, exit_exc, poll_interval, polls>>

DeviceMeasures == \E block \in MXBlocks : DeviceMeasure(block)

\* the device lowers DRDY once MX has been read
DeviceRead ==
    /\ DeviceReady
    /\ state = "ready"
    /\ trace # << >>
    /\ IsRead(trace[Len(trace)]) /\ trace[Len(trace)][2] = _MX
    /\ regs' = [regs EXCEPT ![_STATUS] = <<0>>]
    /\ UNCHANGED <<state, cycle_count, has_drdy, continuous, scope_depth, op,
                   trace, ret, exc, exit_exc, poll_interval, polls>>

\* one evaluation of the loop condition, answered by the device
PollDevice == Poll(DeviceReady, TRUE, DeviceStatus)
\* the read of MX after the loop, answered by the device
ReadDevice == ReadNext(DeviceBlock, TRUE)

NextLive ==
    \/ StartSingleReading(TRUE)
    \/ StartContinuousReading(<<300, 1>>, TRUE)
    \/ EnableContinuous(<<300, 1>>, TRUE)
    \/ Stop(TRUE)
    \/ \E pi \in PollIntervals : GetNextReading(pi)
    \/ PollDevice
    \/ ReadDevice
    \/ Sleep
    \/ DeviceMeasures
    \/ DeviceRead

\* The loop of get_next_reading keeps running (each of its steps is taken
\* when it stays enabled), and the device makes every pending measurement.
FairLive ==
    /\ WF_vars(PollDevice) /\ WF_vars(Sleep) /\ WF_vars(ReadDevice)
    /\ WF_vars(DeviceMeasures)

SpecLive ==
    /\ \E pin \in BOOLEAN : Constructed(200, pin)
    /\ [][NextLive]_vars
    /\ FairLive

(* ------------------------------ claims --------------------------------- *)

\* Reading the trace.
\* a completion check that was true: the pin high, or STATUS read with its
\* top bit set
CheckTrue(e) ==
    \/ IsPin(e) /\ e[2]
    \/ IsRead(e) /\ e[2] = _STATUS /\ EvOk(e) /\ e[4][1] >= 128
\* a completion check that was false
CheckFalse(e) ==
    \/ IsPin(e) /\ ~e[2]
    \/ IsRead(e) /\ e[2] = _STATUS /\ EvOk(e) /\ e[4][1] < 128
\* an acknowledged read of the nine bytes of MX
IsMXRead(e) == IsRead(e) /\ e[2] = _MX /\ e[3] = 9 /\ EvOk(e)
\* the unsigned value of the i-th 3-byte field of the block b
Field(b, i) == 65536 * b[3 * i - 2] + 256 * b[3 * i - 1] + b[3 * i]
\* the call in progress or last finished returned normally
Returned0 == state = "ready" /\ exc = NoExc
\* the trace ends with a true completion check and then the MX read
EndsWithReading ==
    /\ Len(trace) >= 2
    /\ CheckTrue(trace[Len(trace) - 1])
    /\ IsMXRead(trace[Len(trace)])
    /\ \A i \in 1..(Len(trace) - 1) : ~(IsRead(trace[i]) /\ trace[i][2] = _MX)

\* C1 as stated: get_next_reading called while the driver is IDLE ends at
\* once with an invalid-state error: it neither blocks nor returns a reading.
C1_FailsWhenIdle ==
    (op = "get_next_reading" /\ ~continuous) =>
        /\ state = "ready"
        /\ exc # NoExc /\ exc[1] # "OSError"
        /\ ret.kind = "none"
        /\ trace = << >>

\* C1 as amended: get_next_reading called while the driver is IDLE raises no
\* invalid-state error (the code never looks at the continuous flag): it
\* polls measurement_complete, and returns the decoded MX reading exactly
\* when a check was true; the only error it raises is a transport error.
C1_PollsWhenIdle ==
    (op = "get_next_reading" /\ ~continuous) =>
        /\ state \in {"polling", "sleeping", "reading", "ready"}
        /\ exc \in {NoExc, OSError("get_next_reading")}
        /\ (state # "ready") => (ret = NoRet /\ exc = NoExc)
        /\ (state \in {"polling", "sleeping"}) =>
              \A i \in 1..Len(trace) : CheckFalse(trace[i]) \/ IsSleep(trace[i])
        /\ (state = "reading") =>
              /\ trace # << >> /\ CheckTrue(trace[Len(trace)])
              /\ \A i \in 1..(Len(trace) - 1) : CheckFalse(trace[i]) \/ IsSleep(trace[i])
        /\ (exc # NoExc) => (ret = NoRet /\ ~EvOk(trace[Len(trace)]))
        /\ Returned0 =>
               /\ EndsWithReading
               /\ ret = RawRet(DecodeMX(trace[Len(trace)][4]))

\* C1 witness: an IDLE driver's get_next_reading that waited and then
\* returned a reading.
C1_Witness ==
    /\ op = "get_next_reading" /\ ~continuous
    /\ Returned0
    /\ polls >= 1
    /\ ret.kind = "raw"

\* C2 as stated: get_last_reading sign-extends each 3-byte field v of the MX
\* block as 24-bit two's complement: v when v < 0x800000, v - 0x1000000
\* when v >= 0x800000, so every component lies in -8388608..8388607.
C2_SignExtension ==
    (op = "get_last_reading" /\ Returned0) =>
        \A i \in 1..3 :
            LET v == Field(trace[1][4], i)
            IN  /\ ret.vec[i] = IF v < 8388608 THEN v ELSE v - 16777216
                /\ ret.vec[i] >= -8388608
                /\ ret.vec[i] <= 8388607

\* C3 as stated: for every positive frequency the byte
\* start_continuous_reading writes to TMRC is in 0x92..0x9F.
C3_TimerClamped ==
    (op = "start_continuous_reading") =>
        /\ trace # << >>
        /\ IsWrite(trace[1]) /\ trace[1][2] = _TMRC
        /\ Len(trace[1][3]) = 1
        /\ trace[1][3][1] >= 146
        /\ trace[1][3][1] <= 159

\* a step that leaves the `with` block: __exit__ ran
ExitStep == scope_depth' = scope_depth - 1

\* C4: __exit__ while continuous mode is active issues exactly one bus
\* transaction, the write of 0x70 to CMM, and (the write acknowledged)
\* leaves the driver IDLE; __exit__ while IDLE issues no transaction and
\* leaves the driver IDLE.
C4_ScopedStop ==
    [][ExitStep =>
        /\ op' = "__exit__"
        /\ continuous =>
              /\ Len(trace') = 1
              /\ trace'[1] = WriteEv(_CMM, <<112>>, EvOk(trace'[1]))
              /\ EvOk(trace'[1]) => (~continuous' /\ regs'[_CMM] = <<112>>)
        /\ ~continuous => (trace' = << >> /\ ~continuous' /\ regs' = regs)
      ]_vars

\* C4 witness: a block left normally in continuous mode, stopped by
\* __exit__.
C4_Witness ==
    /\ op = "__exit__" /\ exit_exc = NoExc
    /\ trace = <<WriteEv(_CMM, <<112>>, TRUE)>>
    /\ ~continuous /\ scope_depth = 0

\* C5: when the block is left by an exception while the driver is
\* CONTINUOUS, __exit__ still invokes stop (0x70 is written to CMM) and,
\* the write acknowledged, the flag is cleared and that same exception
\* reaches the caller.
C5_StopOnError ==
    [][(ExitStep /\ continuous /\ exit_exc' # NoExc) =>
        /\ Len(trace') = 1
        /\ trace'[1][1] = "write" /\ trace'[1][2] = _CMM /\ trace'[1][3] = <<112>>
        /\ EvOk(trace'[1]) =>
              /\ ~continuous'
              /\ regs'[_CMM] = <<112>>
              /\ exc' = exit_exc'
              /\ exc' # NoExc
      ]_vars

\* C5 witness: an operation inside the block raised while CONTINUOUS, the
\* block was left with that exception, stop ran and the exception went on.
C5_Witness ==
    /\ op = "__exit__"
    /\ exit_exc[1] = "OSError" /\ exit_exc[2] # "stop"
    /\ exc = exit_exc
    /\ trace = <<WriteEv(_CMM, <<112>>, TRUE)>>
    /\ ~continuous /\ regs[_CMM] = <<112>>

\* C6: stop issues the single write of the byte 0x70 to CMM and (the write
\* acknowledged) leaves the flag false and CMM at 0x70 whatever the mode
\* before; a stop after an acknowledged stop changes neither flag nor
\* registers.
C6_StopIdempotent ==
    [][(op' = "stop") =>
        /\ Len(trace') = 1
        /\ trace'[1] = WriteEv(_CMM, <<112>>, EvOk(trace'[1]))
        /\ state' = "ready"
        /\ EvOk(trace'[1]) => (~continuous' /\ regs'[_CMM] = <<112>> /\ exc' = NoExc)
        /\ ~continuous => ~continuous'
        /\ (op = "stop" /\ exc = NoExc) =>
              (continuous' = continuous /\ regs' = regs /\ ~continuous')
      ]_vars

\* C6 witness: an acknowledged stop on a driver on which continuous mode
\* had been started: the flag is false and CMM holds 0x70.
C6_Witness ==
    /\ op = "stop" /\ exc = NoExc
    /\ trace = <<WriteEv(_CMM, <<112>>, TRUE)>>
    /\ ~continuous
    /\ regs[_CMM] = <<112>>
    /\ regs[_TMRC] # NoPayload

\* C7: start_continuous_reading issues the write of one rate byte to TMRC
\* and then, in a second bus transaction, the write of 0x79 to CMM, the
\* second only if the first was acknowledged, and nothing else; between the
\* two neither the flag nor CMM has changed; the flag becomes true exactly
\* when both were acknowledged and otherwise keeps its value.
C7_RateThenEnable ==
    [][(op' = "start_continuous_reading") =>
        /\ Len(trace') \in {1, 2}
        /\ IsWrite(trace'[1]) /\ trace'[1][2] = _TMRC /\ Len(trace'[1][3]) = 1
        /\ state' \in {"enabling", "ready"}
        /\ (state' = "enabling") = (Len(trace') = 1 /\ EvOk(trace'[1]))
        /\ Len(trace') = 2 =>
              /\ EvOk(trace'[1])
              /\ trace'[2] = WriteEv(_CMM, <<121>>, EvOk(trace'[2]))
        /\ (state' = "enabling") =>
              (continuous' = continuous /\ regs'[_CMM] = regs[_CMM] /\ exc' = NoExc)
        /\ (state' = "ready") =>
              IF \A i \in 1..Len(trace') : EvOk(trace'[i])
              THEN Len(trace') = 2 /\ continuous' /\ exc' = NoExc
              ELSE /\ continuous' = continuous
                   /\ exc' = OSError("start_continuous_reading")
      ]_vars

\* C7 witness: both writes acknowledged on an IDLE driver, the flag set.
C7_Witness ==
    /\ op = "start_continuous_reading"
    /\ Len(trace) = 2 /\ EvOk(trace[1]) /\ EvOk(trace[2])
    /\ trace[1][2] = _TMRC /\ trace[2][2] = _CMM
    /\ continuous

\* an event of get_next_reading() with the default poll_interval: a
\* completion check, a sleep of poll_interval, or the read of MX
NextReadingEv(e) ==
    \/ IsPin(e)
    \/ IsRead(e) /\ e[2] \in {_STATUS, _MX}
    \/ e = SleepEv(DefaultPollInterval)

\* C8: the magnetic accessor, when IDLE, writes 0x70 to POLL, then sleeps
\* measurement_time, then does what get_next_reading does; when CONTINUOUS
\* it does what get_next_reading does and writes nothing (so nothing to
\* POLL).  It returns after a true completion check and the read of MX.
C8_MagneticSequence ==
    (op = "magnetic") =>
        /\ IF continuous
           THEN /\ state # "settling"
                /\ \A i \in 1..Len(trace) : NextReadingEv(trace[i])
           ELSE /\ Len(trace) >= 1
                /\ trace[1] = WriteEv(_POLL, <<112>>, EvOk(trace[1]))
                /\ (state = "settling") = (Len(trace) = 1 /\ EvOk(trace[1]))
                /\ ~EvOk(trace[1]) => (Len(trace) = 1 /\ exc = OSError("magnetic"))
                /\ Len(trace) >= 2 =>
                      /\ trace[2] = SleepEv(_CYCLE_DURATION * cycle_count)
                      /\ \A i \in 3..Len(trace) : NextReadingEv(trace[i])
        /\ Returned0 => (EndsWithReading /\ ret.kind = "ut")

\* C8 witness: magnetic on an IDLE driver that triggered, settled, polled
\* once in vain and returned.
C8_Witness ==
    /\ op = "magnetic" /\ ~continuous /\ Returned0
    /\ polls = 1
    /\ Len(trace) = 6
    /\ ret.kind = "ut"

\* C9: start_single_reading issues the single write of the byte 0x70 to
\* POLL and nothing else, leaves the continuous flag as it was, and returns
\* without waiting.
C9_SingleTrigger ==
    [][(op' = "start_single_reading") =>
        /\ Len(trace') = 1
        /\ trace'[1] = WriteEv(_POLL, <<112>>, EvOk(trace'[1]))
        /\ continuous' = continuous
        /\ state' = "ready"
        /\ regs'[_CMM] = regs[_CMM] /\ regs'[_TMRC] = regs[_TMRC]
      ]_vars

\* C9 witness: a single reading triggered while CONTINUOUS.
C9_Witness ==
    /\ op = "start_single_reading" /\ exc = NoExc
    /\ trace = <<WriteEv(_POLL, <<112>>, TRUE)>>
    /\ continuous
    /\ regs[_POLL] = <<112>>

\* C10: measurement_complete with a ready pin configured returns the pin's
\* level and issues no bus transaction; with none it issues exactly one
\* 1-byte read of STATUS and returns true iff bit 0x80 of the byte is set.
C10_CompletionStrategy ==
    (op = "measurement_complete") =>
        /\ Len(trace) = 1
        /\ state = "ready"
        /\ IF has_drdy
           THEN /\ IsPin(trace[1])
                /\ ~IsBus(trace[1])
                /\ ret = BoolRet(trace[1][2])
                /\ exc = NoExc
           ELSE /\ IsRead(trace[1]) /\ trace[1][2] = _STATUS /\ trace[1][3] = 1
                /\ EvOk(trace[1]) =>
                      /\ Len(trace[1][4]) = 1
                      /\ ret = BoolRet(trace[1][4][1] >= 128)
                      /\ exc = NoExc
                /\ ~EvOk(trace[1]) =>
                      (ret = NoRet /\ exc = OSError("measurement_complete"))

\* C10 witness: without a pin, STATUS read as 0x7F (bit 0x80 clear, every
\* other bit set) gives false.
C10_Witness ==
    /\ op = "measurement_complete" /\ ~has_drdy
    /\ trace = <<ReadEv(_STATUS, 1, <<127>>, TRUE)>>
    /\ ret = BoolRet(FALSE)

\* C11: construction with a cycle_count in 1..65535 issues exactly one bus
\* write, to CCX, of six bytes that are three times the 16-bit big-endian
\* encoding of cycle_count, and (the write acknowledged) leaves the driver
\* IDLE.
C11_CycleCountWrite ==
    [][\A cc \in AllCycleCounts \cap (1..65535), pin \in BOOLEAN, ok \in BOOLEAN :
        Construct(cc, pin, ok) =>
            /\ Len(trace') = 1
            /\ IsWrite(trace'[1]) /\ trace'[1][2] = _CCX /\ EvOk(trace'[1]) = ok
            /\ Len(trace'[1][3]) = 6
            /\ \A i \in 1..3 :
                  /\ trace'[1][3][2 * i - 1] \in 0..255
                  /\ trace'[1][3][2 * i] \in 0..255
                  /\ 256 * trace'[1][3][2 * i - 1] + trace'[1][3][2 * i] = cc
            /\ ~continuous'
            /\ ok => (state' = "ready" /\ exc' = NoExc /\ cycle_count' = cc
                      /\ regs'[_CCX] = trace'[1][3])
      ]_vars

\* C11 witness: a driver constructed with cycle_count 0x0102, CCX holding
\* 01 02 01 02 01 02.
C11_Witness ==
    /\ op = "__init__" /\ state = "ready" /\ exc = NoExc
    /\ cycle_count = 258
    /\ trace = <<WriteEv(_CCX, <<1, 2, 1, 2, 1, 2>>, TRUE)>>
    /\ regs[_CCX] = <<1, 2, 1, 2, 1, 2>>
    /\ ~continuous

\* C12 as stated: construction with a cycle_count outside 1..65535 (0,
\* negative, or above 65535) fails with an error and writes nothing to CCX.
C12_RejectsOutside1To65535 ==
    [][\A cc \in AllCycleCounts \ (1..65535), pin \in BOOLEAN, ok \in BOOLEAN :
        Construct(cc, pin, ok) =>
            /\ exc' # NoExc
            /\ state' = "new"
            /\ trace' = << >>
            /\ regs'[_CCX] = regs[_CCX]
      ]_vars

\* C12 as amended: construction with a cycle_count that does not fit 16
\* bits (negative, or above 65535) fails with struct.error and writes
\* nothing; cycle_count 0 is accepted like any 16-bit value: six zero bytes
\* are written to CCX and the driver is constructed.
C12_RejectsUnrepresentable ==
    [][\A cc \in AllCycleCounts \ (1..65535), pin \in BOOLEAN, ok \in BOOLEAN :
        Construct(cc, pin, ok) =>
            IF cc = 0
            THEN /\ trace' = <<WriteEv(_CCX, <<0, 0, 0, 0, 0, 0>>, ok)>>
                 /\ ok => (state' = "ready" /\ exc' = NoExc /\ cycle_count' = 0)
            ELSE /\ exc' = <<"struct.error", "__init__">>
                 /\ state' = "new"
                 /\ trace' = << >>
                 /\ regs' = regs
      ]_vars

\* C12 witness: a construction that struct.pack refused, nothing written.
C12_Witness ==
    /\ op = "__init__" /\ state = "new"
    /\ exc = <<"struct.error", "__init__">>
    /\ trace = << >>
    /\ regs[_CCX] = NoPayload

\* C13 as stated: the stop of scoped cleanup is best-effort: when its CMM
\* write is refused, leaving a block that ended normally raises nothing.
C13_CleanupBestEffort ==
    (op = "__exit__" /\ exit_exc = NoExc /\ trace # << >> /\ ~EvOk(trace[1])) =>
        exc = NoExc

\* C13 as amended: when the CMM write of the cleanup's stop is refused, the
\* transport error leaves __exit__ to the caller, in place of whatever
\* ended the block; the write is attempted once, the flag stays true and
\* CMM keeps the enable byte.
C13_CleanupRaises ==
    (op = "__exit__" /\ trace # << >> /\ ~EvOk(trace[1])) =>
        /\ trace = <<WriteEv(_CMM, <<112>>, FALSE)>>
        /\ exc = OSError("stop")
        /\ ret = NoRet
        /\ continuous
        /\ regs[_CMM] = <<121>>
        /\ scope_depth \in 0..(MaxDepth - 1)

\* C13 witness: a block that ended normally while CONTINUOUS, the stop of
\* __exit__ refused by the bus, and the error raised to the caller.
C13_Witness ==
    /\ op = "__exit__" /\ exit_exc = NoExc
    /\ trace = <<WriteEv(_CMM, <<112>>, FALSE)>>
    /\ exc = OSError("stop")
    /\ continuous /\ scope_depth = 0

\* C14: a refused bus transaction is the last event of its operation and the
\* operation ends with the transport error: no transaction follows it (so
\* none is repeated), every transaction before it was acknowledged, and
\* nothing is returned.
C14_NoRetry ==
    \A i \in 1..Len(trace) :
        (IsBus(trace[i]) /\ ~EvOk(trace[i])) =>
            /\ i = Len(trace)
            /\ state \in {"ready", "new"}
            /\ exc # NoExc /\ exc[1] = "OSError"
            /\ ret = NoRet
            /\ \A j \in 1..(i - 1) : IsBus(trace[j]) => EvOk(trace[j])

\* C14 witness: start_continuous_reading whose TMRC write was refused: the
\* CMM write was not issued and the caller got the error.
C14_Witness ==
    /\ op = "start_continuous_reading"
    /\ Len(trace) = 1
    /\ IsWrite(trace[1]) /\ trace[1][2] = _TMRC /\ ~EvOk(trace[1])
    /\ exc = OSError("start_continuous_reading")
    /\ regs[_CMM] = NoPayload

\* C15: an SPI register read of N bytes at address A is one exchange, inside
\* one acquisition of the device, of N+1 bytes sent and N+1 received; the
\* first byte sent is A with bit 0x80 set and the N others are zero; the
\* result is the N bytes received after the first.
C15_SPIReadFraming ==
    [][\A a \in ReadAddresses, n \in ReadSizes, ok \in BOOLEAN :
        \A b \in BlankBytes, rx \in Answers(n) :
            SPIReadMultiple(a, n, <<b>> \o rx, ok) =>
                /\ Len(trace') = 3
                /\ trace'[1] = AcquireEv /\ trace'[3] = ReleaseEv
                /\ IsTransfer(trace'[2]) /\ trace'[2][2] = "write_readinto"
                /\ Len(trace'[2][3]) = n + 1
                /\ trace'[2][3][1] >= 128 /\ trace'[2][3][1] <= 255
                /\ trace'[2][3][1] % 128 = a % 128
                /\ \A i \in 2..(n + 1) : trace'[2][3][i] = 0
                /\ IF ok
                   THEN /\ Len(trace'[2][4]) = n + 1
                        /\ ret'.kind = "bytes"
                        /\ Len(ret'.vec) = n
                        /\ \A i \in 1..n : ret'.vec[i] = trace'[2][4][i + 1]
                        /\ ret'.vec = rx
                        /\ exc' = NoExc
                   ELSE ret' = NoRet /\ exc' # NoExc
      ]_vars

\* C15 witness: a 1-byte SPI read of STATUS (0x34): B4 00 is sent, FF 80 is
\* received, and the result is the one byte 80.
C15_Witness ==
    /\ op = "RM3100_SPI._read_multiple"
    /\ trace[2] = TransferEv("write_readinto", <<180, 0>>, <<255, 128>>, TRUE)
    /\ ret = BytesRet(<<128>>)

\* the number of acquisitions not yet released after the first i events
RECURSIVE Held(_, _)
Held(evs, i) ==
    IF i = 0 THEN 0
    ELSE Held(evs, i - 1)
         + (IF evs[i] = AcquireEv THEN 1 ELSE IF evs[i] = ReleaseEv THEN -1 ELSE 0)

\* C16: every register read or write of either transport acquires the
\* device, makes its one transfer while holding it, and releases it, also
\* when the transfer fails: the device is never acquired while held, never
\* used while not held, and not held when the call ends.
C16_ScopedAcquisition ==
    (op \in {"RM3100_I2C._write_reg", "RM3100_I2C._read_multiple",
             "RM3100_SPI._write_reg", "RM3100_SPI._read_multiple"}) =>
        /\ Held(trace, Len(trace)) = 0
        /\ \A i \in 1..Len(trace) :
              /\ Held(trace, i) \in {0, 1}
              /\ IsTransfer(trace[i]) => Held(trace, i) = 1
              /\ (trace[i] = AcquireEv) =>
                    (i < Len(trace) /\ IsTransfer(trace[i + 1]))
              /\ IsTransfer(trace[i]) =>
                    (i < Len(trace) /\ trace[i + 1] = ReleaseEv)
        /\ Cardinality({i \in 1..Len(trace) : IsTransfer(trace[i])}) = 1

\* C16 witness: an I2C register write whose transfer failed, the device
\* released all the same.
C16_Witness ==
    /\ op = "RM3100_I2C._write_reg"
    /\ exc # NoExc
    /\ Len(trace) = 3
    /\ IsTransfer(trace[2]) /\ ~EvOk(trace[2])
    /\ trace[3] = ReleaseEv

\* C18: for every k in 0..13, start_continuous_reading(600 / 2^k) writes the
\* byte 0x92 + k to TMRC (0x92 for 600 Hz, 0x93 for 300 Hz), and a frequency
\* below the slowest rate 600 / 2^13 writes 0x9F.
C18_PowerOfTwoStep ==
    [][\A f \in StepFrequencies, ok \in BOOLEAN :
        StartContinuousReading(f, ok) =>
            /\ \A k \in 0..13 :
                  (f[1] * 2^k = 600 * f[2]) =>
                      trace'[1] = WriteEv(_TMRC, <<146 + k>>, ok)
            /\ (f[1] * 2^13 < 600 * f[2]) =>
                  trace'[1] = WriteEv(_TMRC, <<159>>, ok)
            /\ (f = <<600, 1>>) => trace'[1][3] = <<146>>
            /\ (f = <<300, 1>>) => trace'[1][3] = <<147>>
            /\ ok => regs'[_TMRC] = trace'[1][3]
      ]_vars

\* C18 witness: continuous mode started with 0x9F in TMRC (the rate
\* 600 / 2^13, or a slower one).
C18_Witness ==
    /\ op = "start_continuous_reading" /\ exc = NoExc
    /\ trace = <<WriteEv(_TMRC, <<159>>, TRUE), WriteEv(_CMM, <<121>>, TRUE)>>
    /\ regs[_TMRC] = <<159>>
    /\ continuous

\* C19: within one get_next_reading call MX is read at most once, as the
\* call's last transaction and directly after a completion check that was
\* true in this call, and exactly once when the call returns; every check
\* that was false is followed by a sleep of poll_interval before the next
\* check, and every sleep follows a false check; with a ready pin
\* configured the checks read the pin and STATUS is never read, and without
\* one every check is a read of STATUS.
C19_ReadAfterReady ==
    (op = "get_next_reading") =>
        /\ \A i \in 1..Len(trace) :
              /\ (IsRead(trace[i]) /\ trace[i][2] = _MX) =>
                    /\ i = Len(trace) /\ i >= 2
                    /\ CheckTrue(trace[i - 1])
                    /\ trace[i][3] = 9
                    /\ state = "ready"
              /\ CheckTrue(trace[i]) =>
                    IF i = Len(trace) THEN state = "reading"
                    ELSE /\ i = Len(trace) - 1
                         /\ IsRead(trace[i + 1]) /\ trace[i + 1][2] = _MX
              /\ CheckFalse(trace[i]) =>
                    IF i = Len(trace) THEN state = "sleeping"
                    ELSE trace[i + 1] = SleepEv(poll_interval)
              /\ IsSleep(trace[i]) =>
                    /\ i >= 2 /\ CheckFalse(trace[i - 1])
                    /\ trace[i] = SleepEv(poll_interval)
                    /\ (i < Len(trace)) =>
                          (IsPin(trace[i + 1])
                           \/ (IsRead(trace[i + 1]) /\ trace[i + 1][2] = _STATUS))
              /\ has_drdy => ~(IsRead(trace[i]) /\ trace[i][2] = _STATUS)
              /\ ~has_drdy => ~IsPin(trace[i])
              /\ ~IsWrite(trace[i])
        /\ Returned0 =>
              /\ EndsWithReading
              /\ Cardinality({i \in 1..Len(trace) :
                                 IsRead(trace[i]) /\ trace[i][2] = _MX}) = 1

\* C19 witness: with a ready pin and a poll_interval of 1 ms, two checks
\* found the pin low, each followed by the sleep, the third found it high
\* and MX was read.
C19_Witness ==
    /\ op = "get_next_reading" /\ has_drdy /\ Returned0
    /\ poll_interval = 1000
    /\ Len(trace) = 6
    /\ trace[1] = PinEv(FALSE) /\ trace[2] = SleepEv(1000)
    /\ trace[3] = PinEv(FALSE) /\ trace[4] = SleepEv(1000)
    /\ trace[5] = PinEv(TRUE) /\ IsMXRead(trace[6])

\* C20 as stated: the flag is true iff CMM last acknowledged the enable
\* byte, after a failed start_continuous_reading the flag is false, and
\* after a failed stop it is true.
C20_FailedWriteSetsFlag ==
    /\ continuous <=> (regs[_CMM] = <<121>>)
    /\ (op = "start_continuous_reading" /\ exc # NoExc) => ~continuous
    /\ (op = "stop" /\ exc # NoExc) => continuous

\* the operations that only read
ReadSide ==
    {"measurement_complete", "get_last_reading", "get_next_reading",
     "convert_to_microteslas"}

\* C20 as amended: the continuous flag is true iff the last payload acknowledged by CMM
\* is the enable byte 0x79, whatever operations completed or failed before;
\* a refused write in start_continuous_reading or in stop leaves the flag as
\* it was (false before a first start, true before a stop); only
\* construction writes CCX; measurement_complete, get_last_reading,
\* get_next_reading and convert_to_microteslas issue no write and change
\* neither the flag nor CMM nor TMRC.
C20_FlagMatchesCMM ==
    /\ [](continuous <=> (regs[_CMM] = <<121>>))
    /\ [](\A i \in 1..Len(trace) :
              (IsWrite(trace[i]) /\ trace[i][2] = _CCX) => op = "__init__")
    /\ [][/\ (regs'[_CCX] # regs[_CCX]) => op' = "__init__"
          /\ (op' \in {"start_continuous_reading", "stop"} /\ exc' # NoExc) =>
                (continuous' = continuous /\ regs'[_CMM] = regs[_CMM])
          /\ (op' = "start_continuous_reading" /\ exc' = NoExc /\ state' = "ready") =>
                continuous'
          /\ (op' = "stop" /\ exc' = NoExc) => ~continuous'
          /\ (op' \in ReadSide) =>
                /\ continuous' = continuous
                /\ regs' = regs
                /\ \A i \in 1..Len(trace') : ~IsWrite(trace'[i])
         ]_vars

\* C20 witness: a stop refused by the bus while CONTINUOUS: the flag is
\* still true and CMM still holds 0x79.
C20_Witness ==
    /\ op = "stop" /\ exc = OSError("stop")
    /\ trace = <<WriteEv(_CMM, <<112>>, FALSE)>>
    /\ continuous
    /\ regs[_CMM] = <<121>>

\* a get_next_reading call is in its loop
InCall == op = "get_next_reading" /\ state \in {"polling", "sleeping"}
\* no measurement was triggered and the device has nothing ready
Untriggered == ~continuous /\ ~MeasurementPending /\ ~DeviceReady

\* C17: a get_next_reading call made while a measurement is pending or ready
\* (a single reading triggered, or continuous mode) eventually returns the
\* reading, the device eventually making the measurement; a call made while
\* the driver is not in continuous mode, no single reading was started and
\* the device has nothing ready never ends: it stays in its loop, checking
\* and sleeping again and again.
C17_ReturnsIffReady ==
    /\ (InCall /\ (MeasurementPending \/ DeviceReady))
          ~> (op = "get_next_reading" /\ Returned0 /\ ret.kind = "raw"
              /\ EndsWithReading)
    /\ [][(InCall /\ Untriggered) => (InCall' /\ Untriggered' /\ ret' = NoRet)]_vars
    /\ (InCall /\ Untriggered /\ state = "polling")
          ~> (InCall /\ Untriggered /\ state = "sleeping")
    /\ (InCall /\ Untriggered /\ state = "sleeping")
          ~> (InCall /\ Untriggered /\ state = "polling")

\* C17 witness: a call on an IDLE driver with nothing triggered that has
\* checked in vain more often than the trace records, and is still checking.
C17_Witness ==
    /\ InCall /\ Untriggered
    /\ polls = MaxPolls + 1
    /\ state = "polling"
    /\ \A i \in 1..Len(trace) : CheckFalse(trace[i]) \/ IsSleep(trace[i])

====
